---- MODULE Spec2Model ----
(***************************************************************************)
(* A model of LimbusFonts' main.py: the symbol collector and replacement   *)
(* allocator (make_replacement_map), the glyph merge (merge_fonts) and the *)
(* artifact emission of main().                                            *)
(*                                                                         *)
(* A Python str is a sequence of code points; a character is a str of      *)
(* length one.  A dict is a sequence of <<key, value>> pairs in insertion  *)
(* order (the code never reassigns an existing key of the dicts modelled). *)
(***************************************************************************)
EXTENDS Integers, Sequences, FiniteSets

\* ------------------------------------------------------------------ bounds
MaxTextLen == 3
MaxCorpusLen == 2
MaxExtra == 1
MaxWidth == 5

\* --------------------------------------------------------------- constants
\* the lower end of the default private range, 0xE000
PrivateLower == 57344
\* "\n", the separator content.split("\n") splits on
Newline == 10

None == "None"

\* what str.strip() with no argument removes (the ASCII whitespace)
Whitespace == {9, 10, 11, 12, 13, 32}

\* the characters of the corpora the model draws: "a", "b"
Letters == {97, 98}
\* tab, newline, space and "a": the corpora of the collector's specification
CollectAlphabet == {9, 10, 32, 97}
\* the extra code points the model draws
ExtraCodepoints == {PrivateLower}
ExtraCodepointsCollect == {PrivateLower, 32}

FontNames == <<"A", "B">>

VARIABLES
    fonts,           \* data.fonts: the Font structs in declared order, each
                     \* with the text of its symbols file
    default_font,    \* make_replacement_map's default_font
    private_range,   \* <<lower, upper>>
    targets,         \* data.targets in declared order
    pc,              \* where the run is
    fi,              \* the position of the loop over fonts.items()
    content,         \* the symbol list collected for the current font
    replacements,    \* make_replacement_map's replacements dict
    current_symbol,  \* the allocation cursor
    replacement_map, \* what make_replacement_map returned to its caller
    output_dir,      \* whether ./dist has been created
    ti,              \* the position of a loop over the targets
    mi,              \* merge_fonts: the position in replacement_map.replacements
    si,              \* merge_fonts: the position in symbol_map.items()
    merged_font,     \* merge_fonts: the target glyph store
    source_font,     \* merge_fonts: the current source glyph store
    clipboard,       \* fontforge's clipboard
    open_stores,     \* the glyph stores opened and not closed
    pasted,          \* the copy/paste steps of the current merge, in order
    files,           \* the files written, in order
    checksum,        \* main's checksum dict
    font_content     \* the target font bytes read for the checksum

vars == <<fonts, default_font, private_range, targets, pc, fi, content,
          replacements, current_symbol, replacement_map, output_dir, ti, mi,
          si, merged_font, source_font, clipboard, open_stores, pasted,
          files, checksum, font_content>>

inputs == <<fonts, default_font, private_range, targets>>
alloc_vars == <<fi, content, replacements, current_symbol, replacement_map>>
merge_vars == <<mi, si, merged_font, source_font, clipboard, open_stores, pasted>>
artifact_vars == <<files, checksum, font_content>>

\* ------------------------------------------------------------ str and dict
SeqsUpTo(S, n) == UNION {[1..k -> S] : k \in 0..n}

Chr(codepoint) == <<codepoint>>

Ord(symbol) == symbol[1]

RECURSIVE Join(_)
Join(parts) ==
    IF parts = <<>> THEN <<>> ELSE Head(parts) \o Join(Tail(parts))

RECURSIVE Split(_)
Split(text) ==
    IF \A i \in 1..Len(text) : text[i] # Newline
    THEN <<text>>
    ELSE LET i == CHOOSE k \in 1..Len(text) :
                      /\ text[k] = Newline
                      /\ \A j \in 1..(k - 1) : text[j] # Newline
         IN  <<SubSeq(text, 1, i - 1)>> \o Split(SubSeq(text, i + 1, Len(text)))

RECURSIVE LStrip(_)
LStrip(line) ==
    IF line # <<>> /\ Head(line) \in Whitespace THEN LStrip(Tail(line)) ELSE line

RECURSIVE RStrip(_)
RStrip(line) ==
    IF line # <<>> /\ line[Len(line)] \in Whitespace
    THEN RStrip(SubSeq(line, 1, Len(line) - 1))
    ELSE line

\* a plausible slip: only the line's left end is stripped
StripLeftOnly(line) == LStrip(line)

Strip(line) == RStrip(LStrip(line))

\* list(s): the characters of a str
ListOf(text) == [i \in 1..Len(text) |-> <<text[i]>>]

\* lines 47-49: the symbol list of a font
Collect(text, extra) ==
    LET lines == Split(text)
    IN  ListOf(Join([i \in 1..Len(lines) |-> Strip(lines[i])]))
            \o [i \in 1..Len(extra) |-> Chr(extra[i])]

\* `symbol in replacements[font_name]`
HasKey(map, symbol) == \E i \in 1..Len(map) : map[i][1] = symbol

Values(map) == [i \in 1..Len(map) |-> map[i][2]]

\* ------------------------------------------------------ make_replacement_map
\* a plausible slip: the test is made one code point early
RangeFullEarly(cursor, range) == cursor + 1 >= range[2]

\* a plausible slip: the upper bound is taken as the last usable code point
\* (as 0xF8FF is), so the cursor may come to rest one past it
RangeFullLate(cursor, range) == cursor > range[2] + 1

\* line 61
RangeFull(cursor, range) == cursor >= range[2]

\* a plausible slip: the identity branch falls through to the cursor's increment
IdentityEntryAdvancing(st, symbol) ==
    [st EXCEPT !.map = Append(@, <<symbol, symbol>>), !.cur = @ + 1]

\* lines 55-57
IdentityEntry(st, symbol) ==
    [st EXCEPT !.map = Append(@, <<symbol, symbol>>)]

\* lines 59-62
AllocateEntry(st, symbol, range) ==
    [map |-> Append(st.map, <<symbol, Chr(st.cur)>>),
     cur |-> st.cur + 1,
     raised |-> RangeFull(st.cur + 1, range)]

\* a plausible slip: no dedup, a repeated symbol is allocated again
SymbolSeenNever(map, symbol) == FALSE

\* line 52
SymbolSeen(map, symbol) == HasKey(map, symbol)

\* lines 52-62: the body of the loop over content, for one symbol
ProcessSymbol(st, symbol, is_default, range) ==
    IF SymbolSeen(st.map, symbol) THEN st
    ELSE IF is_default THEN IdentityEntry(st, symbol)
    ELSE AllocateEntry(st, symbol, range)

\* lines 51-62: the loop over content, left at the raise
RECURSIVE AllocateFrom(_, _, _, _, _)
AllocateFrom(symbols, i, st, is_default, range) ==
    IF i > Len(symbols) \/ st.raised THEN st
    ELSE AllocateFrom(symbols, i + 1,
                      ProcessSymbol(st, symbols[i], is_default, range),
                      is_default, range)

\* lines 44-62: the loop over fonts.items(), left at the raise
RECURSIVE AllocateFonts(_, _, _, _, _)
AllocateFonts(fs, i, acc, default, range) ==
    IF i > Len(fs) \/ acc.raised THEN acc
    ELSE LET st == AllocateFrom(Collect(fs[i].symbols, fs[i].extra), 1,
                                [map |-> <<>>, cur |-> acc.cur, raised |-> FALSE],
                                fs[i].name = default, range)
         IN  AllocateFonts(fs, i + 1,
                           [replacements |-> Append(acc.replacements, <<fs[i].name, st.map>>),
                            cur |-> st.cur,
                            raised |-> st.raised],
                           default, range)

\* lines 35-64 as a function: the map returned, or None at the raise
make_replacement_map(fs, default, range) ==
    LET r == AllocateFonts(fs, 1,
                           [replacements |-> <<>>, cur |-> range[1], raised |-> FALSE],
                           default, range)
    IN  IF r.raised THEN None ELSE r.replacements

\* ------------------------------------------------------------------- inputs
FontStruct(name, text, extra) ==
    [name |-> name, filename |-> name, symbols |-> text, extra |-> extra]

FontInputs(alphabet, len, extras, nextra) ==
    {[i \in 1..Len(FontNames) |-> FontStruct(FontNames[i], t[i], e[i])] :
        t \in [1..Len(FontNames) -> SeqsUpTo(alphabet, len)],
        e \in [1..Len(FontNames) -> SeqsUpTo(extras, nextra)]}

\* the private ranges drawn: lower <= upper, of every width up to MaxWidth
Ranges == {<<PrivateLower, PrivateLower + w>> : w \in 0..MaxWidth}

StartOfRun ==
    /\ pc = "collect"
    /\ fi = 1
    /\ content = <<>>
    /\ replacements = <<>>
    /\ current_symbol = private_range[1]
    /\ replacement_map = None
    /\ output_dir = FALSE
    /\ ti = 1
    /\ mi = 1
    /\ si = 1
    /\ merged_font = None
    /\ source_font = None
    /\ clipboard = None
    /\ open_stores = {}
    /\ pasted = <<>>
    /\ files = <<>>
    /\ checksum = <<>>
    /\ font_content = None

\* a direct call of make_replacement_map
InitAlloc ==
    /\ fonts \in FontInputs(Letters, MaxCorpusLen, ExtraCodepoints, MaxExtra)
    /\ default_font \in {None} \cup {FontNames[i] : i \in 1..Len(FontNames)}
    /\ private_range \in Ranges
    /\ targets = <<>>
    /\ StartOfRun

\* a direct call of make_replacement_map on one font whose corpus holds
\* whitespace, with a range that never fills
InitCollect ==
    /\ fonts \in {<<FontStruct("A", t, e)>> :
                    t \in SeqsUpTo(CollectAlphabet, MaxTextLen),
                    e \in SeqsUpTo(ExtraCodepointsCollect, MaxExtra)}
    /\ default_font \in {None, "A"}
    /\ private_range = <<PrivateLower, PrivateLower + MaxTextLen + MaxExtra + 2>>
    /\ targets = <<>>
    /\ StartOfRun

\* ------------------------------------------- make_replacement_map, stepwise
\* a plausible slip: ./dist is created at the start of the run, before the map
CollectSymbolsInOutputDir ==
    /\ pc = "collect"
    /\ fi <= Len(fonts)
    /\ replacements' = Append(replacements, <<fonts[fi].name, <<>>>>)
    /\ content' = Collect(fonts[fi].symbols, fonts[fi].extra)
    /\ pc' = "allocate"
    /\ output_dir' = TRUE
    /\ UNCHANGED <<inputs, fi, current_symbol, replacement_map, ti,
                   merge_vars, artifact_vars>>

\* lines 44-49: the next font's sub-map is created and its symbols collected
CollectSymbols ==
    /\ pc = "collect"
    /\ fi <= Len(fonts)
    /\ replacements' = Append(replacements, <<fonts[fi].name, <<>>>>)
    /\ content' = Collect(fonts[fi].symbols, fonts[fi].extra)
    /\ pc' = "allocate"
    /\ UNCHANGED <<inputs, fi, current_symbol, replacement_map, output_dir, ti,
                   merge_vars, artifact_vars>>

\* lines 51-62: the loop over the collected symbols, to its end or the raise
AllocateSymbols ==
    /\ pc = "allocate"
    /\ LET st == AllocateFrom(content, 1,
                              [map |-> <<>>, cur |-> current_symbol, raised |-> FALSE],
                              fonts[fi].name = default_font, private_range)
       IN  /\ replacements' = [replacements EXCEPT ![fi] = <<fonts[fi].name, st.map>>]
           /\ current_symbol' = st.cur
           /\ pc' = IF st.raised THEN "raised" ELSE "collect"
           /\ fi' = IF st.raised THEN fi ELSE fi + 1
    /\ UNCHANGED <<inputs, content, replacement_map, output_dir, ti,
                   merge_vars, artifact_vars>>

\* line 64
ReturnMap ==
    /\ pc = "collect"
    /\ fi > Len(fonts)
    /\ replacement_map' = replacements
    /\ pc' = "returned"
    /\ UNCHANGED <<inputs, fi, content, replacements, current_symbol, output_dir,
                   ti, merge_vars, artifact_vars>>

NextAlloc == CollectSymbols \/ AllocateSymbols \/ ReturnMap

SpecAlloc == InitAlloc /\ [][NextAlloc]_vars

SpecCollect == InitCollect /\ [][NextAlloc]_vars


\* ------------------------------------------------------------- glyph stores
HexDigits == <<"0", "1", "2", "3", "4", "5", "6", "7",
               "8", "9", "A", "B", "C", "D", "E", "F">>

RECURSIVE Hex(_)
Hex(n) == IF n < 16 THEN <<HexDigits[n + 1]>>
          ELSE Hex(n \div 16) \o <<HexDigits[(n % 16) + 1]>>

RECURSIVE ZeroPad(_, _)
ZeroPad(digits, width) ==
    IF Len(digits) >= width THEN digits ELSE ZeroPad(<<"0">> \o digits, width)

\* f"uni{replacement_codepoint:04X}_from_{font_name}"
GlyphName(codepoint, font_name) ==
    <<"uni">> \o ZeroPad(Hex(codepoint), 4) \o <<"_from_", font_name>>

\* the glyphs of a font file as fontforge.open loads them: one per character
\* the model draws, each of which may reference other glyphs
LoadFont(path) ==
    [path |-> path,
     encoding |-> "Original",
     glyphs |-> [c \in Letters |->
                    [font |-> path, codepoint |-> c, refs |-> TRUE,
                     glyphname |-> <<"glyph", c>>]]]

\* lines 89-91: glyph.unlinkRef() on every glyph of the store
UnlinkAll(store) ==
    [store EXCEPT !.glyphs = [c \in DOMAIN @ |-> [@[c] EXCEPT !.refs = FALSE]]]

\* a plausible slip: the glyph is pasted at the symbol's own code point
PasteGlyphAtOriginal(store, glyph, original_codepoint, replacement_codepoint, font_name) ==
    [store EXCEPT !.glyphs =
        [c \in DOMAIN @ \cup {original_codepoint} |->
            IF c = original_codepoint
            THEN [glyph EXCEPT !.glyphname = GlyphName(replacement_codepoint, font_name)]
            ELSE @[c]]]

\* lines 99-103: select the replacement code point, paste, rename
PasteGlyph(store, glyph, original_codepoint, replacement_codepoint, font_name) ==
    [store EXCEPT !.glyphs =
        [c \in DOMAIN @ \cup {replacement_codepoint} |->
            IF c = replacement_codepoint
            THEN [glyph EXCEPT !.glyphname = GlyphName(replacement_codepoint, font_name)]
            ELSE @[c]]]

\* fonts[font_name]
FontNamed(font_name) ==
    fonts[CHOOSE i \in 1..Len(fonts) : fonts[i].name = font_name]

Handle(merge, path) == [merge |-> merge, path |-> path]

\* ---------------------------------------------------------------- artifacts
PreviewLineLength == 64

\* line 67-68
WrapLines(text, line_length) ==
    [k \in 1..((Len(text) + line_length - 1) \div line_length) |->
        SubSeq(text, (k - 1) * line_length + 1,
               IF k * line_length < Len(text) THEN k * line_length ELSE Len(text))]

\* string.ascii_letters + string.digits + string.punctuation
BaseSample ==
    [i \in 1..26 |-> 96 + i] \o [i \in 1..26 |-> 64 + i] \o [i \in 1..10 |-> 47 + i]
        \o [i \in 1..15 |-> 32 + i] \o [i \in 1..7 |-> 57 + i]
        \o [i \in 1..6 |-> 90 + i] \o [i \in 1..4 |-> 122 + i]

\* lines 154-161
PreviewText(map) ==
    [i \in 1..Len(map) |->
        <<map[i][1], WrapLines(Join(Values(map[i][2])), PreviewLineLength)>>]
        \o << <<"base", WrapLines(BaseSample, PreviewLineLength)>> >>

\* hashlib.md5 of the bytes, as a hex digest
MD5(bytes) == <<"md5", bytes>>

B64(bytes) == <<"b64", bytes>>

File(name, data) == [name |-> name, data |-> data]

FileNames == {files[i].name : i \in 1..Len(files)}

\* the bytes a read of the file returns: those of its last write
FileData(name) ==
    files[CHOOSE i \in 1..Len(files) :
            /\ files[i].name = name
            /\ \A j \in (i + 1)..Len(files) : files[j].name # name].data

TargetDefs ==
    <<[name |-> "T1", filename |-> "T1.ttf", source |-> "base1.ttf"],
      [name |-> "T2", filename |-> "T2.ttf", source |-> "base2.ttf"]>>

TargetPath(i) == <<"dist", targets[i].filename>>
PreviewPath(i) == <<"dist", "preview_", targets[i].name, ".html">>
MapPath == <<"dist", "replacement_map.json">>
ChecksumPath == <<"dist", "checksum.json">>

\* a run of main(): the default font is never passed (lines 118-120)
Init ==
    /\ fonts \in FontInputs(Letters, MaxCorpusLen, {}, 0)
    /\ default_font = None
    /\ private_range \in Ranges
    /\ targets \in {SubSeq(TargetDefs, 1, k) : k \in 0..Len(TargetDefs)}
    /\ StartOfRun

\* ------------------------------------------------------- main and merge_fonts
\* lines 121-124
MakeOutputDir ==
    /\ pc = "returned"
    /\ output_dir' = TRUE
    /\ ti' = 1
    /\ pc' = IF targets = <<>> THEN "write_map" ELSE "merge_open"
    /\ UNCHANGED <<inputs, alloc_vars, merge_vars, artifact_vars>>

\* lines 77-80
OpenTarget ==
    /\ pc = "merge_open"
    /\ merged_font' = [LoadFont(targets[ti].source) EXCEPT !.encoding = "UnicodeFull"]
    /\ open_stores' = open_stores \cup {Handle(ti, targets[ti].source)}
    /\ mi' = 1
    /\ pasted' = <<>>
    /\ pc' = IF replacement_map = <<>> THEN "generate" ELSE "merge_source"
    /\ UNCHANGED <<inputs, alloc_vars, output_dir, ti, si, source_font, clipboard,
                   artifact_vars>>

\* lines 82-91, and the loop over symbol_map.items() when the sub-map is empty
OpenSource ==
    /\ pc = "merge_source"
    /\ LET font_name == replacement_map[mi][1]
           symbol_map == replacement_map[mi][2]
           source_font_info == FontNamed(font_name)
       IN  /\ source_font' = UnlinkAll(LoadFont(source_font_info.filename))
           /\ open_stores' = open_stores \cup {Handle(ti, source_font_info.filename)}
           /\ si' = 1
           /\ IF symbol_map # <<>>
              THEN pc' = "merge_copy" /\ mi' = mi
              ELSE /\ mi' = mi + 1
                   /\ pc' = IF mi + 1 > Len(replacement_map)
                            THEN "generate" ELSE "merge_source"
    /\ UNCHANGED <<inputs, alloc_vars, output_dir, ti, merged_font, clipboard,
                   pasted, artifact_vars>>

\* lines 93-103, for one entry of symbol_map
CopyGlyph ==
    /\ pc = "merge_copy"
    /\ LET font_name == replacement_map[mi][1]
           symbol_map == replacement_map[mi][2]
           original_codepoint == Ord(symbol_map[si][1])
           replacement_codepoint == Ord(symbol_map[si][2])
           glyph == source_font.glyphs[original_codepoint]
       IN  /\ original_codepoint \in DOMAIN source_font.glyphs
           /\ clipboard' = glyph
           /\ merged_font' = PasteGlyph(merged_font, glyph, original_codepoint,
                                        replacement_codepoint, font_name)
           /\ pasted' = Append(pasted, <<font_name, symbol_map[si][1], symbol_map[si][2]>>)
           /\ IF si < Len(symbol_map)
              THEN si' = si + 1 /\ mi' = mi /\ pc' = "merge_copy"
              ELSE /\ si' = 1
                   /\ mi' = mi + 1
                   /\ pc' = IF mi + 1 > Len(replacement_map)
                            THEN "generate" ELSE "merge_source"
    /\ UNCHANGED <<inputs, alloc_vars, output_dir, ti, source_font, open_stores,
                   artifact_vars>>

\* lines 107-111: generate, close the target store, return; the source stores
\* are not closed (line 105 is commented out)
Generate ==
    /\ pc = "generate"
    /\ files' = Append(files, File(TargetPath(ti), merged_font.glyphs))
    /\ open_stores' = open_stores \ {Handle(ti, targets[ti].source)}
    /\ merged_font' = None
    /\ source_font' = None
    /\ ti' = ti + 1
    /\ pc' = IF ti + 1 > Len(targets) THEN "write_map" ELSE "merge_open"
    /\ UNCHANGED <<inputs, alloc_vars, output_dir, mi, si, clipboard, pasted,
                   checksum, font_content>>

\* lines 134-135
WriteReplacementMap ==
    /\ pc = "write_map"
    /\ files' = Append(files, File(MapPath, replacement_map))
    /\ pc' = "load_resources"
    /\ UNCHANGED <<inputs, alloc_vars, output_dir, ti, merge_vars, checksum,
                   font_content>>

\* lines 137-142: the fallback font and the template are read, checksum = {}
LoadResources ==
    /\ pc = "load_resources"
    /\ checksum' = <<>>
    /\ ti' = 1
    /\ pc' = IF targets = <<>> THEN "write_checksum" ELSE "checksum"
    /\ UNCHANGED <<inputs, alloc_vars, output_dir, merge_vars, files, font_content>>

\* lines 145-152
ChecksumTarget ==
    /\ pc = "checksum"
    /\ TargetPath(ti) \in FileNames
    /\ font_content' = FileData(TargetPath(ti))
    /\ checksum' = Append(checksum, <<targets[ti].name, MD5(FileData(TargetPath(ti)))>>)
    /\ pc' = "preview"
    /\ UNCHANGED <<inputs, alloc_vars, output_dir, ti, merge_vars, files>>

\* a plausible slip: the manifest's write is indented into the loop
WritePreviewAndManifest ==
    /\ pc = "preview"
    /\ files' = files \o <<File(PreviewPath(ti),
                                [font_name |-> targets[ti].name,
                                 font_data |-> B64(font_content),
                                 fallback_font |-> B64("fallback_font.ttf"),
                                 preview_text |-> PreviewText(replacement_map)]),
                           File(ChecksumPath, checksum)>>
    /\ ti' = ti + 1
    /\ pc' = IF ti + 1 > Len(targets) THEN "write_checksum" ELSE "checksum"
    /\ UNCHANGED <<inputs, alloc_vars, output_dir, merge_vars, checksum, font_content>>

\* lines 154-171
WritePreview ==
    /\ pc = "preview"
    /\ files' = Append(files,
                       File(PreviewPath(ti),
                            [font_name |-> targets[ti].name,
                             font_data |-> B64(font_content),
                             fallback_font |-> B64("fallback_font.ttf"),
                             preview_text |-> PreviewText(replacement_map)]))
    /\ ti' = ti + 1
    /\ pc' = IF ti + 1 > Len(targets) THEN "write_checksum" ELSE "checksum"
    /\ UNCHANGED <<inputs, alloc_vars, output_dir, merge_vars, checksum, font_content>>

\* lines 173-179
WriteChecksum ==
    /\ pc = "write_checksum"
    /\ files' = Append(files, File(ChecksumPath, checksum))
    /\ pc' = "done"
    /\ UNCHANGED <<inputs, alloc_vars, output_dir, ti, merge_vars, checksum,
                   font_content>>

\* where a call into the file system, fontforge or jinja2 may raise
MayRaise ==
    {"returned", "merge_open", "merge_source", "merge_copy", "generate",
     "write_map", "load_resources", "checksum", "preview", "write_checksum"}

\* an exception of a collaborator leaves main(): nothing catches it
Abort ==
    /\ pc \in MayRaise
    /\ pc' = "aborted"
    /\ UNCHANGED <<inputs, alloc_vars, output_dir, ti, merge_vars, artifact_vars>>

Next ==
    \/ CollectSymbols
    \/ AllocateSymbols
    \/ ReturnMap
    \/ MakeOutputDir
    \/ OpenTarget
    \/ OpenSource
    \/ CopyGlyph
    \/ Generate
    \/ WriteReplacementMap
    \/ LoadResources
    \/ ChecksumTarget
    \/ WritePreview
    \/ WriteChecksum
    \/ Abort

Spec == Init /\ [][Next]_vars

\* ------------------------------------------- claims on make_replacement_map
\* the symbol sequence collected for font i
Contents(i) == Collect(fonts[i].symbols, fonts[i].extra)

DistinctCount(symbols) == Cardinality({symbols[i] : i \in 1..Len(symbols)})

\* the distinct symbols of the non-identity fonts before font i, summed
RECURSIVE NeededBefore(_)
NeededBefore(i) ==
    IF i <= 1 THEN 0
    ELSE NeededBefore(i - 1)
         + (IF fonts[i - 1].name = default_font THEN 0
            ELSE DistinctCount(Contents(i - 1)))

TotalNeeded == NeededBefore(Len(fonts) + 1)

Width == private_range[2] - private_range[1]

CallEnded == pc \in {"raised", "returned"}

\* C1: in a returned map, two entries of different fonts never have the same
\* replacement character, the default font's entries included.
C1_NoCrossFontCollision ==
    replacement_map # None =>
        \A i, j \in 1..Len(replacement_map) :
            i # j =>
                \A p \in 1..Len(replacement_map[i][2]) :
                    \A q \in 1..Len(replacement_map[j][2]) :
                        replacement_map[i][2][p][2] # replacement_map[j][2][q][2]

\* C2: for a range with lower <= upper, when the non-identity fonts hold more
\* distinct symbols than the range is wide, the call ends in the raise and no
\* map, complete or partial, is ever returned.
C2_RangeExhaustion ==
    TotalNeeded > Width =>
        /\ replacement_map = None
        /\ pc # "returned"
        /\ pc = "raised" \/ ENABLED NextAlloc

C2_Witness ==
    /\ pc = "raised"
    /\ TotalNeeded = Width + 1
    /\ Width >= 2
    /\ fi = Len(fonts)

\* C3 as stated: a range exactly as wide as the number of distinct symbols of
\* the non-identity fonts is enough, the call returns a map.
C3_ExactWidthSuffices ==
    (CallEnded /\ Width = TotalNeeded) => pc = "returned"

\* C3 amended: a range strictly wider than the number of distinct symbols of
\* the non-identity fonts is enough; a range exactly that wide is not, unless
\* no symbol needs a code point.
C3_WiderRangeSuffices ==
    /\ (CallEnded /\ Width > TotalNeeded) =>
            (pc = "returned" /\ replacement_map # None)
    /\ (CallEnded /\ Width = TotalNeeded /\ TotalNeeded > 0) =>
            (pc = "raised" /\ replacement_map = None)

C3_Witness ==
    /\ pc = "returned"
    /\ Width = TotalNeeded + 1
    /\ TotalNeeded >= 2

\* the sub-maps of the fonts other than the default font
OtherMaps(map) ==
    IF map = None THEN None
    ELSE SelectSeq(map, LAMBDA e : e[1] # default_font)

\* the fonts, the default font's corpus and extra list emptied
WithoutDefaultSymbols ==
    [i \in 1..Len(fonts) |->
        IF fonts[i].name = default_font
        THEN [fonts[i] EXCEPT !.symbols = <<>>, !.extra = <<>>]
        ELSE fonts[i]]

RECURSIVE AllocatedIn(_)
AllocatedIn(maps) ==
    IF maps = <<>> THEN 0
    ELSE (IF Head(maps)[1] = default_font THEN 0 ELSE Len(Head(maps)[2]))
         + AllocatedIn(Tail(maps))

\* C4: every entry of the default font maps the symbol to itself, the cursor
\* counts the entries of the other fonts only, and the call ends as it would
\* with the default font's symbols taken away: the same raise, or the same
\* sub-maps for the other fonts.
C4_IdentityPassThrough ==
    /\ \A i \in 1..Len(replacements) :
            replacements[i][1] = default_font =>
                \A p \in 1..Len(replacements[i][2]) :
                    replacements[i][2][p][2] = replacements[i][2][p][1]
    /\ current_symbol = private_range[1] + AllocatedIn(replacements)
    /\ CallEnded =>
            OtherMaps(replacement_map) =
                OtherMaps(make_replacement_map(WithoutDefaultSymbols,
                                               default_font, private_range))

C4_Witness ==
    /\ pc = "returned"
    /\ default_font # None
    /\ \A i \in 1..Len(replacement_map) : Len(replacement_map[i][2]) >= 2

Lookup(map, key) == map[CHOOSE i \in 1..Len(map) : map[i][1] = key][2]

IsFirstOccurrence(symbols, p) == \A q \in 1..(p - 1) : symbols[q] # symbols[p]

DistinctBefore(symbols, p) == Cardinality({symbols[q] : q \in 1..(p - 1)})

\* C5: in a returned map, the k-th first occurrence of a symbol over the
\* non-identity fonts, walked in declared order, has the replacement character
\* of code point lower + k, and a font's sub-map has one entry per distinct
\* symbol of its sequence.
C5_AllocationOrder ==
    pc = "returned" =>
        \A i \in 1..Len(fonts) :
            fonts[i].name # default_font =>
                LET symbols == Contents(i)
                    map == replacement_map[i][2]
                IN  /\ replacement_map[i][1] = fonts[i].name
                    /\ Len(map) = DistinctCount(symbols)
                    /\ \A p \in 1..Len(symbols) :
                          IsFirstOccurrence(symbols, p) =>
                              /\ HasKey(map, symbols[p])
                              /\ Lookup(map, symbols[p]) =
                                    Chr(private_range[1] + NeededBefore(i)
                                            + DistinctBefore(symbols, p))

C5_Witness ==
    /\ pc = "returned"
    /\ default_font = None
    /\ Len(Contents(1)) > DistinctCount(Contents(1))
    /\ DistinctCount(Contents(1)) >= 2
    /\ \E p \in 1..Len(Contents(2)) : HasKey(replacement_map[1][2], Contents(2)[p])

\* the characters of text from position i on that are neither a newline nor
\* whitespace at the start or the end of a line: position i is kept when a
\* stretch of its line that holds it starts and ends with non-whitespace
RECURSIVE KeptFrom(_, _)
KeptFrom(text, i) ==
    IF i > Len(text) THEN <<>>
    ELSE (IF \E j \in 1..i : \E k \in i..Len(text) :
                /\ text[j] \notin Whitespace
                /\ text[k] \notin Whitespace
                /\ \A m \in j..k : text[m] # Newline
          THEN <<Chr(text[i])>>
          ELSE <<>>) \o KeptFrom(text, i + 1)

ExtraChars(extra) == [i \in 1..Len(extra) |-> Chr(extra[i])]

\* C6 as stated: the collected sequence is the corpus with only its newlines
\* removed, followed by the extra code points' characters.
C6_OnlyNewlinesRemoved ==
    pc = "allocate" =>
        content = ListOf(SelectSeq(fonts[fi].symbols, LAMBDA c : c # Newline))
                      \o ExtraChars(fonts[fi].extra)

\* C6 amended: the collected sequence is the corpus with its newlines and the
\* whitespace at the start and the end of each line removed, every other
\* character kept in order, followed by the extra code points' characters in
\* the list's order; nothing is deduplicated.
C6_LinesStripped ==
    pc = "allocate" =>
        content = KeptFrom(fonts[fi].symbols, 1) \o ExtraChars(fonts[fi].extra)

C6_Witness ==
    /\ pc = "allocate"
    /\ Len(fonts[fi].symbols) = 3
    /\ fonts[fi].symbols[1] = 32
    /\ fonts[fi].symbols[2] = 97
    /\ fonts[fi].symbols[3] = 9
    /\ fonts[fi].extra = <<32>>
    /\ content = <<Chr(97), Chr(32)>>

\* ------------------------------------------------ claims on main, merge_fonts
IsPrefix(a, b) == Len(a) <= Len(b) /\ SubSeq(b, 1, Len(a)) = a

ManifestWrites == {i \in 1..Len(files) : files[i].name = ChecksumPath}

\* checksum.json, where written, is the one and last file, the run is done,
\* and every target's font, checksum and preview came before it
ManifestInPlace ==
    /\ Cardinality(ManifestWrites) <= 1
    /\ \A k \in ManifestWrites :
          /\ k = Len(files)
          /\ pc = "done"
          /\ \A t \in 1..Len(targets) :
                /\ \E i \in 1..(k - 1) : files[i].name = TargetPath(t)
                /\ \E i \in 1..(k - 1) : files[i].name = PreviewPath(t)
                /\ \E c \in 1..Len(checksum) :
                      /\ checksum[c][1] = targets[t].name
                      /\ checksum[c][2] = MD5(FileData(TargetPath(t)))
                /\ files[k].data = checksum
    /\ pc = "done" => ManifestWrites # {}
    /\ pc = "aborted" => ManifestWrites = {}

\* C7: checksum.json is written at most once, after every target has been
\* generated, checksummed and previewed, as the last file of the run; an
\* aborted run never writes it; and no step removes or rewrites a file
\* already written.
C7_ManifestLast ==
    [][ManifestInPlace' /\ IsPrefix(files, files')]_vars

C7_Witness ==
    /\ pc = "done"
    /\ Len(targets) = 2
    /\ files[Len(files)].name = ChecksumPath
    /\ Len(checksum) = 2

\* C8: once merge_fonts has returned, no glyph store it opened is open.
C8_StoresReleased ==
    pc \in {"merge_open", "write_map", "load_resources", "checksum", "preview",
            "write_checksum", "done"} =>
        open_stores = {}

RECURSIVE Entries(_)
Entries(map) ==
    IF map = <<>> THEN <<>>
    ELSE [p \in 1..Len(Head(map)[2]) |->
             <<Head(map)[1], Head(map)[2][p][1], Head(map)[2][p][2]>>]
         \o Entries(Tail(map))

\* C9: when generation is requested, the target store holds, at every
\* replacement code point of the map, the glyph of that entry's font at the
\* symbol's code point, its references unlinked, named
\* uni<code point in hex>_from_<font>; the copies were made in map order;
\* and every configured font's store was opened for this target.
C9_MergePostcondition ==
    pc = "generate" =>
        /\ \A i \in 1..Len(replacement_map) :
              \A p \in 1..Len(replacement_map[i][2]) :
                  LET font_name == replacement_map[i][1]
                      symbol == replacement_map[i][2][p][1]
                      target == replacement_map[i][2][p][2][1]
                  IN  /\ target \in DOMAIN merged_font.glyphs
                      /\ merged_font.glyphs[target].font = FontNamed(font_name).filename
                      /\ merged_font.glyphs[target].codepoint = symbol[1]
                      /\ merged_font.glyphs[target].refs = FALSE
                      /\ target - PrivateLower \in 0..15
                      /\ merged_font.glyphs[target].glyphname =
                            <<"uni", "E", "0", "0",
                              HexDigits[target - PrivateLower + 1],
                              "_from_", font_name>>
        /\ pasted = Entries(replacement_map)
        /\ \A i \in 1..Len(fonts) :
              /\ \E j \in 1..Len(replacement_map) : replacement_map[j][1] = fonts[i].name
              /\ Handle(ti, fonts[i].filename) \in open_stores

C9_Witness ==
    /\ pc = "generate"
    /\ ti = 2
    /\ Len(replacement_map[1][2]) = 2
    /\ Len(replacement_map[2][2]) = 2
    /\ replacement_map[1][2][2][1] = replacement_map[2][2][1][1]

NoSideEffects ==
    /\ output_dir = FALSE
    /\ open_stores = {}
    /\ merged_font = None
    /\ source_font = None
    /\ files = <<>>

PreviewsOf(map) ==
    \A i \in 1..Len(files) :
        \A t \in 1..Len(targets) :
            files[i].name = PreviewPath(t) =>
                files[i].data.preview_text = PreviewText(map)

\* C10: until the map is returned nothing else has happened; a run whose
\* allocation raised stops there, with no output directory, no store opened
\* and no file written; the map is built once and no later step changes it,
\* so every merge step and every preview uses that one map.
C10_MapBeforeSideEffects ==
    [][/\ (pc' \in {"collect", "allocate", "raised"} =>
              NoSideEffects' /\ replacement_map' = None)
       /\ (pc' \notin {"collect", "allocate", "raised"} =>
              replacement_map' = make_replacement_map(fonts, default_font, private_range))
       /\ (pc = "raised" => UNCHANGED vars)
       /\ (replacement_map # None => replacement_map' = replacement_map)
       /\ (replacement_map' # None =>
              /\ PreviewsOf(replacement_map)'
              /\ IsPrefix(pasted', Entries(replacement_map')))]_vars

C10_Witness ==
    /\ pc = "raised"
    /\ fi = 2
    /\ Len(targets) = 2
    /\ replacements[1][2] # <<>>

====
